---- MODULE Spec2Model ----
(***************************************************************************)
(* BeatFindr lead scraper (src/main.py): lexicon classification of titles, *)
(* lead building for the two ingestion sources, deduplication against the  *)
(* ledger, and the run coordinator run_once with its store and mailer.     *)
(*                                                                         *)
(* Text is a sequence of one-character strings, so that substring          *)
(* containment, lowercasing and whitespace collapsing are computed.  The   *)
(* other cells of a row (timestamp, source, author, url, tags) are plain   *)
(* strings; a string the code builds by concatenation is looked up.        *)
(***************************************************************************)
EXTENDS Integers, Sequences, FiniteSets, TLC

\* ------------------------------------------------------------ bounds
\* Runs of the job in one behaviour (each run is one process).
MaxRuns == 2
\* Seed queries and feeds polled per run: the first NumQueries entries of
\* SEARCH_QUERIES and the first NumFeeds entries of SYNC_RSS_FEEDS.
NumQueries == 2
NumFeeds == 1
\* Environment events in one behaviour: raw records delivered by the sources
\* plus fetch failures injected.
MaxEvents == 3
\* Titles of the classification specification are concatenations of at most
\* MaxFrags fragments.
MaxFrags == 3

\* ------------------------------------------------------------ configuration
SEARCH_QUERIES ==
    << "buying beats"
    , "paying for beats"
    , "buying instrumentals"
    , "need beats for video"
    , "looking for trap beats"
    , "need hip hop instrumental"
    , "commission a beat"
    , "custom trap instrumental"
    , "exclusive rights beat"
    , "budget for beats"
    , "sync licensing hip hop"
    , "hip hop placement brief"
    , "cinematic hip hop placement"
    , "music supervisor hip hop"
    , "looking for hip hop instrumental"
    , "looking for trap instrumental"
    , "need cinematic instrumental"
    >>

\* "reddit; " + q, for each seed query q.
REDDIT_TAGS ==
    << "reddit; buying beats"
    , "reddit; paying for beats"
    , "reddit; buying instrumentals"
    , "reddit; need beats for video"
    , "reddit; looking for trap beats"
    , "reddit; need hip hop instrumental"
    , "reddit; commission a beat"
    , "reddit; custom trap instrumental"
    , "reddit; exclusive rights beat"
    , "reddit; budget for beats"
    , "reddit; sync licensing hip hop"
    , "reddit; hip hop placement brief"
    , "reddit; cinematic hip hop placement"
    , "reddit; music supervisor hip hop"
    , "reddit; looking for hip hop instrumental"
    , "reddit; looking for trap instrumental"
    , "reddit; need cinematic instrumental"
    >>

SYNC_RSS_FEEDS ==
    << "https://news.google.com/rss/search?q=sync+licensing+hip+hop"
    , "https://news.google.com/rss/search?q=sync+licensing+trap"
    , "https://news.google.com/rss/search?q=music+licensing+hip+hop"
    , "https://news.google.com/rss/search?q=placement+opportunity+hip+hop"
    , "https://news.google.com/rss/search?q=sync+brief+hip+hop"
    , "https://news.google.com/rss/search?q=cinematic+hip+hop+placement"
    , "https://news.google.com/rss/search?q=music+supervisor+looking+for+music+hip+hop"
    , "https://news.google.com/rss/search?q=call+for+submissions+hip+hop+instrumental"
    , "https://news.google.com/rss/search?q=music+wanted+hip+hop+instrumental"
    >>

\* ------------------------------------------------------------ lexicons
INTENT_TERMS ==
    { <<"b","u","y">>   \* buy
    , <<"b","u","y","i","n","g">>   \* buying
    , <<"p","u","r","c","h","a","s","e">>   \* purchase
    , <<"p","a","y">>   \* pay
    , <<"p","a","y","i","n","g">>   \* paying
    , <<"b","u","d","g","e","t">>   \* budget
    , <<"u","s","d">>   \* usd
    , <<"$">>   \* $
    , <<"n","e","e","d">>   \* need
    , <<"l","o","o","k","i","n","g"," ","f","o","r">>   \* looking for
    , <<"s","e","e","k","i","n","g">>   \* seeking
    , <<"r","e","q","u","e","s","t">>   \* request
    , <<"r","e","q","u","e","s","t","s">>   \* requests
    , <<"c","o","m","m","i","s","s","i","o","n">>   \* commission
    , <<"h","i","r","e">>   \* hire
    , <<"h","i","r","i","n","g">>   \* hiring
    , <<"b","r","i","e","f">>   \* brief
    , <<"p","l","a","c","e","m","e","n","t">>   \* placement
    , <<"s","y","n","c">>   \* sync
    , <<"l","i","c","e","n","s","i","n","g">>   \* licensing
    , <<"s","u","p","e","r","v","i","s","o","r">>   \* supervisor
    , <<"e","x","c","l","u","s","i","v","e"," ","r","i","g","h","t","s">>   \* exclusive rights
    , <<"n","o","n","-","e","x","c","l","u","s","i","v","e">>   \* non-exclusive
    , <<"n","o","n","e","x","c","l","u","s","i","v","e">>   \* nonexclusive
    , <<"c","u","s","t","o","m">>   \* custom
    }

ASSET_TERMS ==
    { <<"b","e","a","t">>   \* beat
    , <<"b","e","a","t","s">>   \* beats
    , <<"i","n","s","t","r","u","m","e","n","t","a","l">>   \* instrumental
    , <<"i","n","s","t","r","u","m","e","n","t","a","l","s">>   \* instrumentals
    , <<"t","r","a","c","k">>   \* track
    , <<"t","r","a","c","k","s">>   \* tracks
    , <<"m","u","s","i","c">>   \* music
    , <<"c","u","e">>   \* cue
    , <<"c","u","e","s">>   \* cues
    , <<"s","c","o","r","e">>   \* score
    , <<"s","o","u","n","d","t","r","a","c","k">>   \* soundtrack
    }

GENRE_TERMS ==
    { <<"t","r","a","p">>   \* trap
    , <<"h","i","p"," ","h","o","p">>   \* hip hop
    , <<"h","i","p","-","h","o","p">>   \* hip-hop
    , <<"r","a","p">>   \* rap
    , <<"d","r","i","l","l">>   \* drill
    , <<"b","o","o","m"," ","b","a","p">>   \* boom bap
    , <<"c","i","n","e","m","a","t","i","c">>   \* cinematic
    , <<"o","r","c","h","e","s","t","r","a","l">>   \* orchestral
    , <<"d","a","r","k">>   \* dark
    , <<"e","p","i","c">>   \* epic
    , <<"c","i","n","e","m","a","t","i","c"," ","h","i","p"," ","h","o","p">>   \* cinematic hip hop
    , <<"o","r","c","h","e","s","t","r","a","l"," ","h","i","p"," ","h","o","p">>   \* orchestral hip hop
    }

USE_CASE_TERMS ==
    { <<"f","o","r"," ","v","i","d","e","o">>   \* for video
    , <<"f","o","r"," ","f","i","l","m">>   \* for film
    , <<"f","o","r"," ","m","o","v","i","e">>   \* for movie
    , <<"f","o","r"," ","s","h","o","r","t"," ","f","i","l","m">>   \* for short film
    , <<"f","o","r"," ","y","o","u","t","u","b","e">>   \* for youtube
    , <<"f","o","r"," ","t","i","k","t","o","k">>   \* for tiktok
    , <<"f","o","r"," ","a","d">>   \* for ad
    , <<"f","o","r"," ","t","r","a","i","l","e","r">>   \* for trailer
    , <<"f","o","r"," ","c","o","m","m","e","r","c","i","a","l">>   \* for commercial
    , <<"f","o","r"," ","p","o","d","c","a","s","t">>   \* for podcast
    , <<"f","o","r"," ","g","a","m","e">>   \* for game
    , <<"f","o","r"," ","t","v">>   \* for tv
    , <<"f","o","r"," ","t","v"," ","s","h","o","w">>   \* for tv show
    }

NEGATIVE_TERMS ==
    { <<"c","h","e","c","k"," ","m","y"," ","b","e","a","t">>   \* check my beat
    , <<"m","y"," ","n","e","w"," ","b","e","a","t">>   \* my new beat
    , <<"f","r","e","e"," ","b","e","a","t","s">>   \* free beats
    , <<"i"," ","s","e","l","l"," ","b","e","a","t","s">>   \* i sell beats
    , <<"s","e","l","l","i","n","g"," ","b","e","a","t","s">>   \* selling beats
    , <<"b","e","a","t"," ","s","t","o","r","e">>   \* beat store
    , <<"b","e","a","t","s","t","a","r","s",".","c","o","m">>   \* beatstars.com
    , <<"a","i","r","b","i","t",".","c","o","m">>   \* airbit.com
    , <<"t","y","p","e"," ","b","e","a","t"," ","p","a","c","k">>   \* type beat pack
    , <<"b","e","a","t"," ","p","a","c","k">>   \* beat pack
    , <<"p","r","o","d"," ","b","y">>   \* prod by
    , <<"p","r","o","d","u","c","e","r"," ","t","a","g">>   \* producer tag
    , <<"s","t","r","e","a","m"," ","m","y"," ","b","e","a","t">>   \* stream my beat
    }

SYNC_HINT_TERMS ==
    { <<"s","y","n","c">>   \* sync
    , <<"l","i","c","e","n","s","i","n","g">>   \* licensing
    , <<"p","l","a","c","e","m","e","n","t">>   \* placement
    , <<"b","r","i","e","f">>   \* brief
    }

RSS_INTENT_TERMS ==
    { <<"s","y","n","c">>   \* sync
    , <<"l","i","c","e","n","s","i","n","g">>   \* licensing
    , <<"p","l","a","c","e","m","e","n","t">>   \* placement
    , <<"b","r","i","e","f">>   \* brief
    , <<"s","u","p","e","r","v","i","s","o","r">>   \* supervisor
    , <<"c","a","l","l"," ","f","o","r"," ","s","u","b","m","i","s","s","i","o","n","s">>   \* call for submissions
    , <<"m","u","s","i","c"," ","w","a","n","t","e","d">>   \* music wanted
    }

RSS_STYLE_TERMS ==
    { <<"h","i","p","h","o","p">>   \* hiphop
    , <<"u","r","b","a","n">>   \* urban
    }


\* The secondary set of looks_like_buyer: {"sync","licensing","placement","brief"}.
\* The intent and style sets of search_sync_rss follow it.

\* ------------------------------------------------------------ matching helpers
\* str.lower() on the letters titles are built from.
LowerMap ==
    [c \in {"A","B","C","D","E","F","G","H","I","J","K","L","M",
            "N","O","P","Q","R","S","T","U","V","W","X","Y","Z"} |->
        CASE c = "A" -> "a" [] c = "B" -> "b" [] c = "C" -> "c" [] c = "D" -> "d"
          [] c = "E" -> "e" [] c = "F" -> "f" [] c = "G" -> "g" [] c = "H" -> "h"
          [] c = "I" -> "i" [] c = "J" -> "j" [] c = "K" -> "k" [] c = "L" -> "l"
          [] c = "M" -> "m" [] c = "N" -> "n" [] c = "O" -> "o" [] c = "P" -> "p"
          [] c = "Q" -> "q" [] c = "R" -> "r" [] c = "S" -> "s" [] c = "T" -> "t"
          [] c = "U" -> "u" [] c = "V" -> "v" [] c = "W" -> "w" [] c = "X" -> "x"
          [] c = "Y" -> "y" [] c = "Z" -> "z"]

lower(text) ==
    [i \in 1..Len(text) |->
        IF text[i] \in DOMAIN LowerMap THEN LowerMap[text[i]] ELSE text[i]]

\* The characters \s matches, among those titles are built from.
IsSpace(c) == c \in {" ", "\t", "\n", "\r"}

RECURSIVE SkipSpaces(_)
SkipSpaces(s) ==
    IF s # <<>> /\ IsSpace(Head(s)) THEN SkipSpaces(Tail(s)) ELSE s

\* re.sub(r"\s+", " ", s): every maximal run of whitespace becomes one space.
RECURSIVE CollapseSpaces(_)
CollapseSpaces(s) ==
    IF s = <<>> THEN <<>>
    ELSE IF IsSpace(Head(s)) THEN <<" ">> \o CollapseSpaces(SkipSpaces(s))
    ELSE <<Head(s)>> \o CollapseSpaces(Tail(s))

RECURSIVE DropTrailingSpaces(_)
DropTrailingSpaces(s) ==
    IF s # <<>> /\ IsSpace(s[Len(s)])
    THEN DropTrailingSpaces(SubSeq(s, 1, Len(s) - 1))
    ELSE s

\* str.strip()
strip(s) == DropTrailingSpaces(SkipSpaces(s))

normalize(text) == strip(CollapseSpaces(lower(text)))

\* t in text
IsIn(t, text) ==
    \E i \in 0..(Len(text) - Len(t)) : \A k \in 1..Len(t) : text[i + k] = t[k]

contains_any(text, terms) == \E t \in terms : IsIn(t, text)

\* looks_like_buyer with the style/sync conjunct lost.
looks_like_buyer_NoStyle(text) ==
    LET intent == contains_any(text, INTENT_TERMS) \/ IsIn(<<"$">>, text)
        asset  == contains_any(text, ASSET_TERMS)
    IN  asset /\ intent

looks_like_buyer(text) ==
    LET intent == contains_any(text, INTENT_TERMS) \/ IsIn(<<"$">>, text)
        asset  == contains_any(text, ASSET_TERMS)
        style  == contains_any(text, GENRE_TERMS)
        syncy  == contains_any(text, USE_CASE_TERMS)
                    \/ contains_any(text, SYNC_HINT_TERMS)
    IN  asset /\ intent /\ (style \/ syncy)

\* is_noise that never fires.
is_noise_Never(text) == FALSE

is_noise(text) == contains_any(text, NEGATIVE_TERMS)

\* ------------------------------------------------------------ raw records
\* Titles the sources of the run specification deliver.
\* "Looking for trap instrumental, budget $200 for sync placement"
TitleWanted ==
    <<"L","o","o","k","i","n","g"," ","f","o","r"," ","t","r","a","p"," ","i","n","s","t","r","u","m","e","n","t","a","l",","," ","b","u","d","g","e","t"," ","$","2","0","0"," ","f","o","r"," ","s","y","n","c"," ","p","l","a","c","e","m","e","n","t">>

\* "$50 beat for video"
TitlePaid ==
    <<"$","5","0"," ","b","e","a","t"," ","f","o","r"," ","v","i","d","e","o">>

\* "Check my new beat pack free beats"
TitleSelfPromo ==
    <<"C","h","e","c","k"," ","m","y"," ","n","e","w"," ","b","e","a","t"," ","p","a","c","k"," ","f","r","e","e"," ","b","e","a","t","s">>

\* "Buying trap beats?  PROD BY me, sync ready"
TitleShoutedPromo ==
    <<"B","u","y","i","n","g"," ","t","r","a","p"," ","b","e","a","t","s","?"," "," ","P","R","O","D"," ","B","Y"," ","m","e",","," ","s","y","n","c"," ","r","e","a","d","y">>

\* "nice beat"
TitleAssetOnly ==
    <<"n","i","c","e"," ","b","e","a","t">>

\* "Sync brief: urban supervisor"
TitleSyncNews ==
    <<"S","y","n","c"," ","b","r","i","e","f",":"," ","u","r","b","a","n"," ","s","u","p","e","r","v","i","s","o","r">>

\* "dark trap vibes"
TitleGenreOnly ==
    <<"d","a","r","k"," ","t","r","a","p"," ","v","i","b","e","s">>

\* "Title"
HeaderTitle ==
    <<"T","i","t","l","e">>

\* "need drill beats"
TitleOld ==
    <<"n","e","e","d"," ","d","r","i","l","l"," ","b","e","a","t","s">>

PoolTitles ==
    { TitleWanted, TitlePaid, TitleSelfPromo, TitleShoutedPromo
    , TitleAssetOnly, TitleSyncNews, TitleGenreOnly, <<>> }

\* What lines 164-165 and 196-201 compute from a title.
Classify(title) ==
    LET tl == normalize(title)
    IN  [ tl        |-> tl
        , noise     |-> is_noise(tl)
        , buyer     |-> looks_like_buyer(tl)
        , intentish |-> contains_any(tl, RSS_INTENT_TERMS)
        , styleish  |-> contains_any(tl, GENRE_TERMS)
                          \/ contains_any(tl, RSS_STYLE_TERMS) ]

\* Classify on the pool titles, computed once.
PoolVerdict == [t \in PoolTitles |-> Classify(t)]

Verdict(title) ==
    IF title \in PoolTitles THEN PoolVerdict[title] ELSE Classify(title)

\* f"https://www.reddit.com{permalink}"
RedditUrl(permalink) ==
    CASE permalink = "/r/beats/1" -> "https://www.reddit.com/r/beats/1"
      [] permalink = "/r/beats/2" -> "https://www.reddit.com/r/beats/2"

\* f"u/{author}"
UserHandle(author) ==
    CASE author = "alice"   -> "u/alice"
      [] author = "unknown" -> "u/unknown"

\* "reddit; " + q
RedditTag(q) ==
    REDDIT_TAGS[CHOOSE i \in 1..Len(SEARCH_QUERIES) : SEARCH_QUERIES[i] = q]

\* A child of the search response.  bad marks a child whose handling raises
\* (a null child, a title that is a number): it.get or normalize fails.
Post(title, author, permalink, url) ==
    [bad |-> FALSE, title |-> title, author |-> author,
     permalink |-> permalink, url |-> url]

BadPost == [bad |-> TRUE, title |-> <<>>, author |-> "", permalink |-> "", url |-> ""]

RawPosts ==
    { Post(TitleWanted, "alice", "/r/beats/1", "")
    , Post(TitlePaid, "", "", "https://x/1")
    , Post(TitleShoutedPromo, "alice", "/r/beats/2", "")
    , Post(TitleSelfPromo, "alice", "/r/beats/2", "")
    , Post(TitleAssetOnly, "alice", "/r/beats/2", "")
    , Post(TitleWanted, "alice", "", "")
    , Post(<<>>, "alice", "/r/beats/2", "")
    , BadPost }

\* An entry of a parsed feed; bad marks an entry whose handling raises.
Entry(title, link) == [bad |-> FALSE, title |-> title, link |-> link]

BadEntry == [bad |-> TRUE, title |-> <<>>, link |-> ""]

RawEntries ==
    { Entry(TitleSyncNews, "https://x/1")
    , Entry(TitleShoutedPromo, "https://x/2")
    , Entry(TitleGenreOnly, "https://x/2")
    , Entry(TitleSyncNews, "")
    , BadEntry }

\* feed.feed: with or without a title attribute.
FeedHeads ==
    { [has_title |-> FALSE, title |-> ""]
    , [has_title |-> TRUE,  title |-> "Reddit"]
    , [has_title |-> TRUE,  title |-> "Google News"] }

\* datetime.now(timezone.utc).strftime(...) during run r.
Now(r) ==
    CASE r = 1 -> "2026-01-01 06:00:00 UTC"
      [] r = 2 -> "2026-01-02 06:00:00 UTC"
      [] r = 3 -> "2026-01-03 06:00:00 UTC"
      [] OTHER -> "2026-01-04 06:00:00 UTC"

\* ------------------------------------------------------------ lead building
\* The body of the loop over the children of one search response.
reddit_item(d, q, now) ==
    LET title == d.title
        v     == Verdict(title)
    IN  IF title = <<>> \/ v.noise \/ ~v.buyer THEN <<>>
        ELSE LET author == IF d.author # "" THEN d.author ELSE "unknown"
                 url    == IF d.permalink # "" THEN RedditUrl(d.permalink) ELSE d.url
             IN  IF url = "" THEN <<>>
                 ELSE << [ timestamp |-> now
                         , source    |-> "Reddit"
                         , who       |-> UserHandle(author)
                         , title     |-> title
                         , url       |-> url
                         , tags      |-> RedditTag(q) ] >>

\* rss_entry with the intent test made on INTENT_TERMS and an asset required.
rss_entry_LikePost(entry, source, now) ==
    LET v == Verdict(entry.title)
    IN  IF entry.link = "" THEN <<>>
        ELSE IF v.noise THEN <<>>
        ELSE IF ~v.buyer THEN <<>>
        ELSE << [ timestamp |-> now, source |-> source, who |-> source
                , title |-> entry.title, url |-> entry.link
                , tags |-> "sync; rss" ] >>

\* The body of the loop over the entries of one feed.
rss_entry(entry, source, now) ==
    LET title == entry.title
        link  == entry.link
        v     == Verdict(title)
    IN  IF link = "" THEN <<>>
        ELSE IF v.noise THEN <<>>
        ELSE IF ~(v.intentish /\ v.styleish) THEN <<>>
        ELSE << [ timestamp |-> now
                , source    |-> source
                , who       |-> source
                , title     |-> title
                , url       |-> link
                , tags      |-> "sync; rss" ] >>

\* The children of one response, in order; handling stops where it raises,
\* and the leads appended before stay in the list.
RECURSIVE reddit_items(_, _, _, _)
reddit_items(items, q, now, leads) ==
    IF items = <<>> THEN [leads |-> leads, raised |-> FALSE]
    ELSE IF Head(items).bad THEN [leads |-> leads, raised |-> TRUE]
    ELSE reddit_items(Tail(items), q, now, leads \o reddit_item(Head(items), q, now))

RECURSIVE rss_entries(_, _, _, _)
rss_entries(entries, source, now, out) ==
    IF entries = <<>> THEN [leads |-> out, raised |-> FALSE]
    ELSE IF Head(entries).bad THEN [leads |-> out, raised |-> TRUE]
    ELSE rss_entries(Tail(entries), source, now, out \o rss_entry(Head(entries), source, now))

\* ------------------------------------------------------------ titles
\* The fragments the titles of the classification specification are built from.
Fragments ==
    { <<"n","e","e","d"," ">>
    , <<"$">>
    , <<"b","e","a","t">>
    , <<"t","r","a","p">>
    , <<" ","f","o","r"," ","v","i","d","e","o">>
    , <<"s","y","n","c">>
    , <<"P","r","o","d","\n"," ","B","y">>
    , <<"u","r","b","a","n">>
    , <<"m","u","s","i","c"," ","w","a","n","t","e","d">>
    }

RECURSIVE TextsUpTo(_)
TextsUpTo(n) ==
    IF n = 0 THEN {<<>>}
    ELSE LET shorter == TextsUpTo(n - 1)
         IN  shorter \cup {t \o f : t \in shorter, f \in Fragments}

Texts == TextsUpTo(MaxFrags)

\* ------------------------------------------------------------ the ledger
\* header of get_sheet; the Title cell is text, like the title cell of a row.
Header == <<"Timestamp", "Source", "From/Author", HeaderTitle, "URL", "Tags">>

\* The header of an earlier schema.
LegacyHeader == <<"Date", "Source", "Author", HeaderTitle, "Link">>

RowOf(l) == <<l.timestamp, l.source, l.who, l.title, l.url, l.tags>>

OldRow(url) ==
    <<"2025-12-31 06:00:00 UTC", "Reddit", "u/alice", TitleOld, url, "reddit; buying beats">>

\* The sheet when the first run starts: new and empty, holding the header
\* only, holding rows of earlier runs (among them a short row and a row with
\* an empty URL cell), or left by a version with another schema.
InitStores ==
    { <<>>
    , <<Header>>
    , <<Header, <<"2025-12-30 06:00:00 UTC", "note">>, OldRow(""),
        OldRow("https://www.reddit.com/r/beats/1")>>
    , <<LegacyHeader, <<"2025-12-29", "Reddit", "u/alice", TitleOld, "https://x/1">>>> }

\* existing_urls that skips the first lead row too ([2:] for [1:]).
existing_urls_SkipTwo(values) ==
    { values[i][5] : i \in { j \in 3..Len(values) : Len(values[j]) >= 5 /\ values[j][5] # "" } }

\* existing_urls, on the rows ws.get_all_values() returns.
existing_urls(values) ==
    { values[i][5] : i \in { j \in 2..Len(values) : Len(values[j]) >= 5 /\ values[j][5] # "" } }

\* The dedup loop of run_once without seen.add.
RECURSIVE Dedup_NoAdd(_, _, _)
Dedup_NoAdd(cands, seen0, acc) ==
    IF cands = <<>> THEN [new_items |-> acc, seen |-> seen0]
    ELSE IF Head(cands).url \in seen0 THEN Dedup_NoAdd(Tail(cands), seen0, acc)
    ELSE Dedup_NoAdd(Tail(cands), seen0, Append(acc, Head(cands)))

\* The dedup loop of run_once: one pass, seen grows as leads are accepted.
RECURSIVE Dedup(_, _, _)
Dedup(cands, seen0, acc) ==
    IF cands = <<>> THEN [new_items |-> acc, seen |-> seen0]
    ELSE IF Head(cands).url \in seen0 THEN Dedup(Tail(cands), seen0, acc)
    ELSE Dedup(Tail(cands), seen0 \cup {Head(cands).url}, Append(acc, Head(cands)))

\* counts of run_once.
Counts(rows) ==
    ("Reddit"   :> Cardinality({i \in 1..Len(rows) : rows[i][2] = "Reddit"}))
 @@ ("Sync RSS" :> Cardinality({i \in 1..Len(rows) : rows[i][2] # "Reddit"}))

SeqsUpTo(S, n) == UNION {[1..k -> S] : k \in 0..n}

\* ------------------------------------------------------------ state
VARIABLES
    store,          \* the rows of sheet1, as ws.get_all_values() returns them
    pc,             \* where the current run is
    run,            \* the number of the current run
    seen,           \* run_once: seen
    reddit_leads,   \* search_reddit: leads; then run_once: reddit_leads
    rss_leads,      \* search_sync_rss: out; then run_once: rss_leads
    qi,             \* search_reddit: position in SEARCH_QUERIES
    fi,             \* search_sync_rss: position in SYNC_RSS_FEEDS
    new_items,      \* run_once: new_items
    log,            \* what the run has printed
    trace,          \* the steps of the run and its calls on the store and the mailer
    outbox,         \* the messages the run has sent
    budget,         \* environment events left
    probe           \* the classification specification: one title and what is computed from it

vars == <<store, pc, run, seen, reddit_leads, rss_leads, qi, fi, new_items,
          log, trace, outbox, budget, probe>>

runVars == <<store, pc, run, seen, reddit_leads, rss_leads, qi, fi, new_items,
             log, trace, outbox, budget>>

new_rows == [i \in 1..Len(new_items) |-> RowOf(new_items[i])]

ProbeIdle ==
    [stage |-> "idle", title |-> <<>>, link |-> "", tl |-> <<>>,
     noise |-> FALSE, buyer |-> FALSE, leads |-> <<>>]

Init ==
    /\ store \in InitStores
    /\ pc = "get_sheet"
    /\ run = 1
    /\ seen = {}
    /\ reddit_leads = <<>>
    /\ rss_leads = <<>>
    /\ qi = 1
    /\ fi = 1
    /\ new_items = <<>>
    /\ log = <<>>
    /\ trace = <<>>
    /\ outbox = <<>>
    /\ budget = MaxEvents
    /\ probe = ProbeIdle

\* ------------------------------------------------------------ get_sheet
\* get_sheet that appends the header without clearing the sheet.
GetSheet_NoClear ==
    /\ pc = "get_sheet"
    /\ IF store = <<>> \/ store[1] # Header
       THEN /\ store' = Append(store, Header)
            /\ trace' = trace \o <<"get_sheet", "append_row">>
       ELSE /\ store' = store
            /\ trace' = Append(trace, "get_sheet")
    /\ pc' = "existing_urls"
    /\ UNCHANGED <<run, seen, reddit_leads, rss_leads, qi, fi, new_items, log, outbox, budget, probe>>

GetSheet ==
    /\ pc = "get_sheet"
    /\ IF store = <<>> \/ store[1] # Header
       THEN /\ store' = <<Header>>
            /\ trace' = trace \o (IF store # <<>>
                                  THEN <<"get_sheet", "clear", "append_row">>
                                  ELSE <<"get_sheet", "append_row">>)
       ELSE /\ store' = store
            /\ trace' = Append(trace, "get_sheet")
    /\ pc' = "existing_urls"
    /\ UNCHANGED <<run, seen, reddit_leads, rss_leads, qi, fi, new_items, log, outbox, budget, probe>>

\* A call on the store raises in get_sheet: opening the sheet or reading it
\* (nothing is changed), or append_row after clear (the sheet is left empty).
GetSheetRaises ==
    /\ pc = "get_sheet"
    /\ \/ /\ store' = store
          /\ trace' = trace \o <<"get_sheet", "raise">>
       \/ /\ store # <<>> /\ store[1] # Header
          /\ store' = <<>>
          /\ trace' = trace \o <<"get_sheet", "clear", "raise">>
    /\ pc' = "error"
    /\ UNCHANGED <<run, seen, reddit_leads, rss_leads, qi, fi, new_items, log, outbox, budget, probe>>

\* ------------------------------------------------------------ existing_urls
LoadSeen ==
    /\ pc = "existing_urls"
    /\ seen' = existing_urls(store)
    /\ trace' = Append(trace, "existing_urls")
    /\ pc' = "search_reddit"
    /\ UNCHANGED <<store, run, reddit_leads, rss_leads, qi, fi, new_items, log, outbox, budget, probe>>

LoadSeenRaises ==
    /\ pc = "existing_urls"
    /\ trace' = trace \o <<"existing_urls", "raise">>
    /\ pc' = "error"
    /\ UNCHANGED <<store, run, seen, reddit_leads, rss_leads, qi, fi, new_items, log, outbox, budget, probe>>

\* ------------------------------------------------------------ search_reddit
\* One pass of the loop over SEARCH_QUERIES: the request, then the children.
SearchQuery ==
    /\ pc = "search_reddit"
    /\ LET q == SEARCH_QUERIES[qi]
       IN  \/ \* requests.get or r.json() raises
              /\ budget > 0
              /\ budget' = budget - 1
              /\ log' = Append(log, <<"ERR", "Reddit error", q>>)
              /\ UNCHANGED reddit_leads
           \/ \* a status other than 200
              /\ budget > 0
              /\ budget' = budget - 1
              /\ log' = Append(log, <<"WARN", "Reddit query failed", q>>)
              /\ UNCHANGED reddit_leads
           \/ \E items \in SeqsUpTo(RawPosts, budget) :
                LET r == reddit_items(items, q, Now(run), reddit_leads)
                IN  /\ budget' = budget - Len(items)
                    /\ reddit_leads' = r.leads
                    /\ log' = IF r.raised
                              THEN Append(log, <<"ERR", "Reddit error", q>>)
                              ELSE log
    /\ trace' = Append(trace, "search_reddit")
    /\ qi' = qi + 1
    /\ pc' = IF qi = NumQueries THEN "search_sync_rss" ELSE pc
    /\ UNCHANGED <<store, run, seen, rss_leads, fi, new_items, outbox, probe>>

\* ------------------------------------------------------------ search_sync_rss
\* One pass of the loop over SYNC_RSS_FEEDS: the parse, then the entries.
SearchFeed ==
    /\ pc = "search_sync_rss"
    /\ LET feed_url == SYNC_RSS_FEEDS[fi]
       IN  \/ \* feedparser.parse raises
              /\ budget > 0
              /\ budget' = budget - 1
              /\ log' = Append(log, <<"WARN", "RSS error", feed_url>>)
              /\ UNCHANGED rss_leads
           \/ \E head \in FeedHeads, entries \in SeqsUpTo(RawEntries, budget) :
                LET source == IF head.has_title THEN head.title ELSE "Sync RSS"
                    r == rss_entries(entries, source, Now(run), rss_leads)
                IN  /\ budget' = budget - Len(entries)
                    /\ rss_leads' = r.leads
                    /\ log' = IF r.raised
                              THEN Append(log, <<"WARN", "RSS error", feed_url>>)
                              ELSE log
    /\ trace' = Append(trace, "search_sync_rss")
    /\ fi' = fi + 1
    /\ pc' = IF fi = NumFeeds THEN "dedup" ELSE pc
    /\ UNCHANGED <<store, run, seen, reddit_leads, qi, new_items, outbox, probe>>

\* ------------------------------------------------------------ run_once
DedupStep ==
    /\ pc = "dedup"
    /\ LET r == Dedup(reddit_leads \o rss_leads, seen, <<>>)
       IN  /\ new_items' = r.new_items
           /\ seen' = r.seen
    /\ trace' = Append(trace, "dedup")
    /\ pc' = "write"
    /\ UNCHANGED <<store, run, reddit_leads, rss_leads, qi, fi, log, outbox, budget, probe>>

\* The write step with the rows inserted below the header.
Persist_InsertAtTop ==
    /\ pc = "write"
    /\ IF new_rows # <<>>
       THEN /\ store' = <<Head(store)>> \o new_rows \o Tail(store)
            /\ trace' = trace \o <<"write", "append_rows">>
            /\ log' = Append(log, <<"Added", Len(new_rows)>>)
       ELSE /\ log' = Append(log, <<"No new leads">>)
            /\ trace' = Append(trace, "write")
            /\ UNCHANGED store
    /\ pc' = "email"
    /\ UNCHANGED <<run, seen, reddit_leads, rss_leads, qi, fi, new_items, outbox, budget, probe>>

Persist ==
    /\ pc = "write"
    /\ IF new_rows # <<>>
       THEN /\ store' = store \o new_rows
            /\ trace' = trace \o <<"write", "append_rows">>
            /\ log' = Append(log, <<"Added", Len(new_rows)>>)
       ELSE /\ log' = Append(log, <<"No new leads">>)
            /\ trace' = Append(trace, "write")
            /\ UNCHANGED store
    /\ pc' = "email"
    /\ UNCHANGED <<run, seen, reddit_leads, rss_leads, qi, fi, new_items, outbox, budget, probe>>

\* ws.append_rows raises: nothing is written and the run ends.
PersistRaises ==
    /\ pc = "write"
    /\ new_rows # <<>>
    /\ trace' = trace \o <<"write", "raise">>
    /\ pc' = "error"
    /\ UNCHANGED <<store, run, seen, reddit_leads, rss_leads, qi, fi, new_items, log, outbox, budget, probe>>

\* ------------------------------------------------------------ email_csv
\* email_csv without its early return on an empty list.
SendEmail_Always ==
    /\ pc = "email"
    /\ LET counts == Counts(new_rows)
           total  == counts["Reddit"] + counts["Sync RSS"]
       IN  /\ outbox' = Append(outbox, [rows |-> <<Header>> \o new_rows,
                                         counts |-> counts, total |-> total])
           /\ trace' = trace \o <<"email", "send_message">>
           /\ log' = Append(log, <<"Emailed", total>>)
    /\ pc' = "done"
    /\ UNCHANGED <<store, run, seen, reddit_leads, rss_leads, qi, fi, new_items, budget, probe>>

SendEmail ==
    /\ pc = "email"
    /\ LET counts == Counts(new_rows)
           total  == counts["Reddit"] + counts["Sync RSS"]
       IN  IF new_rows = <<>>
           THEN /\ log' = Append(log, <<"No new rows to email.">>)
                /\ trace' = Append(trace, "email")
                /\ UNCHANGED outbox
           ELSE /\ outbox' = Append(outbox, [rows |-> <<Header>> \o new_rows,
                                              counts |-> counts, total |-> total])
                /\ trace' = trace \o <<"email", "send_message">>
                /\ log' = Append(log, <<"Emailed", total>>)
    /\ pc' = "done"
    /\ UNCHANGED <<store, run, seen, reddit_leads, rss_leads, qi, fi, new_items, budget, probe>>

\* The SMTP login or send raises.
SendEmailRaises ==
    /\ pc = "email"
    /\ new_rows # <<>>
    /\ trace' = trace \o <<"email", "raise">>
    /\ pc' = "error"
    /\ UNCHANGED <<store, run, seen, reddit_leads, rss_leads, qi, fi, new_items, log, outbox, budget, probe>>

\* ------------------------------------------------------------ the schedule
\* The next scheduled run: a new process, on the sheet the last one left.
NextRun ==
    /\ pc \in {"done", "error"}
    /\ run < MaxRuns
    /\ run' = run + 1
    /\ pc' = "get_sheet"
    /\ seen' = {}
    /\ reddit_leads' = <<>>
    /\ rss_leads' = <<>>
    /\ qi' = 1
    /\ fi' = 1
    /\ new_items' = <<>>
    /\ log' = <<>>
    /\ trace' = <<>>
    /\ outbox' = <<>>
    /\ UNCHANGED <<store, budget, probe>>

Next ==
    \/ GetSheet
    \/ GetSheetRaises
    \/ LoadSeen
    \/ LoadSeenRaises
    \/ SearchQuery
    \/ SearchFeed
    \/ DedupStep
    \/ Persist
    \/ PersistRaises
    \/ SendEmail
    \/ SendEmailRaises
    \/ NextRun

Spec == Init /\ [][Next]_vars

\* ------------------------------------------------------------ classification
\* One title taken through normalize, the two rules and the loop body of one
\* source, as the only record a run fetches; the run then goes on to dedup,
\* the write and the summary.
ProbeInit ==
    /\ store = <<Header>>
    /\ pc = "probe"
    /\ run = 1
    /\ seen = {}
    /\ reddit_leads = <<>>
    /\ rss_leads = <<>>
    /\ qi = 1
    /\ fi = 1
    /\ new_items = <<>>
    /\ log = <<>>
    /\ trace = <<>>
    /\ outbox = <<>>
    /\ budget = 0
    /\ probe \in [stage : {"raw"}, title : Texts, link : {"", "https://x/1"},
                  tl : {<<>>}, noise : {FALSE}, buyer : {FALSE}, leads : {<<>>}]

ProbeNormalize ==
    /\ probe.stage = "raw"
    /\ probe' = [probe EXCEPT !.stage = "norm", !.tl = normalize(probe.title)]
    /\ UNCHANGED runVars

ProbeRules ==
    /\ probe.stage = "norm"
    /\ probe' = [probe EXCEPT !.stage = "rules",
                              !.noise = is_noise(probe.tl),
                              !.buyer = looks_like_buyer(probe.tl)]
    /\ UNCHANGED runVars

\* The title arrives as a post of the first seed query, with a direct url.
ProbePost ==
    /\ probe.stage = "rules"
    /\ LET r == reddit_items(<<Post(probe.title, "alice", "", probe.link)>>,
                             SEARCH_QUERIES[1], Now(run), reddit_leads)
       IN  /\ probe' = [probe EXCEPT !.stage = "post", !.leads = r.leads]
           /\ reddit_leads' = r.leads
    /\ trace' = trace \o <<"search_reddit", "search_sync_rss">>
    /\ pc' = "dedup"
    /\ UNCHANGED <<store, run, seen, rss_leads, qi, fi, new_items, log, outbox, budget>>

\* The title arrives as an entry of the first feed, which declares no title.
ProbeEntry ==
    /\ probe.stage = "rules"
    /\ LET r == rss_entries(<<Entry(probe.title, probe.link)>>, "Sync RSS", Now(run), rss_leads)
       IN  /\ probe' = [probe EXCEPT !.stage = "entry", !.leads = r.leads]
           /\ rss_leads' = r.leads
    /\ trace' = trace \o <<"search_reddit", "search_sync_rss">>
    /\ pc' = "dedup"
    /\ UNCHANGED <<store, run, seen, reddit_leads, qi, fi, new_items, log, outbox, budget>>

ProbeNext ==
    \/ ProbeNormalize
    \/ ProbeRules
    \/ ProbePost
    \/ ProbeEntry
    \/ DedupStep
    \/ Persist
    \/ SendEmail

SpecClassify == ProbeInit /\ [][ProbeNext]_vars

\* ------------------------------------------------------------ properties
\* Substring containment as the properties state it: some term of the set
\* equals some slice of the text.
HasTerm(text, terms) ==
    \E t \in terms :
        \E i \in 1..(Len(text) - Len(t) + 1) : SubSeq(text, i, i + Len(t) - 1) = t

Candidates == reddit_leads \o rss_leads

\* The rows of the sheet that carry a URL cell.
UrlRows == {i \in 2..Len(store) : Len(store[i]) >= 5}

\* C1: no two lead rows of the ledger have the same url, whatever the runs
\* fetched: the same url from several seed queries, from both sources, or
\* again in a later run.
C1_UniqueUrls ==
    \A i, j \in UrlRows : i # j => store[i][5] # store[j][5]

\* A second run has ended in which a post and a feed entry both carried the
\* url of a row the first run appended.
C1_Witness ==
    /\ pc = "done"
    /\ run = 2
    /\ \E i \in 1..Len(reddit_leads), j \in 1..Len(rss_leads), k \in UrlRows :
          /\ reddit_leads[i].url = rss_leads[j].url
          /\ store[k][5] = reddit_leads[i].url
          /\ store[k][1] = Now(1)

\* The indices of C kept by a first-occurrence filter against S.
KeptIdx(C, S) ==
    {i \in 1..Len(C) : C[i].url \notin S /\ \A j \in 1..(i - 1) : C[j].url # C[i].url}

FirstOccurrences(C, S) ==
    LET K == KeptIdx(C, S)
        kth(k) == CHOOSE i \in K : Cardinality({j \in K : j <= i}) = k
    IN  [k \in 1..Cardinality(K) |-> C[kth(k)]]

\* C2: the dedup step accepts exactly the first occurrence, in order, of each
\* candidate url that is not in the seen set loaded from the ledger.
C2_DedupFirstOccurrences ==
    [][pc = "dedup" => new_items' = FirstOccurrences(Candidates, seen)]_vars

\* S = {u1}, C = [u1, u2, u2] with the last u2 from a feed: [u2] is accepted.
C2_Witness ==
    /\ pc = "write"
    /\ Len(reddit_leads) = 2
    /\ Len(rss_leads) = 1
    /\ \E k \in UrlRows : store[k][5] = reddit_leads[1].url
    /\ reddit_leads[2].url # reddit_leads[1].url
    /\ rss_leads[1].url = reddit_leads[2].url
    /\ new_items = <<reddit_leads[2]>>

\* C3: a title whose normalized text contains a NEGATIVE term produces no
\* lead on either ingestion path, whatever else it matches, and no row the
\* run appends to the ledger has such a title.
C3_NoiseWins ==
    /\ (probe.stage \in {"post", "entry"} /\ HasTerm(probe.tl, NEGATIVE_TERMS))
          => probe.leads = <<>>
    /\ \A i \in 2..Len(store) : ~HasTerm(normalize(store[i][4]), NEGATIVE_TERMS)

\* A post with a url whose title has asset, intent and sync matches and a
\* NEGATIVE match was handled and dropped, and the run ended with nothing
\* appended.
C3_Witness ==
    /\ probe.stage = "post"
    /\ pc = "done"
    /\ store = <<Header>>
    /\ probe.link # ""
    /\ HasTerm(probe.tl, NEGATIVE_TERMS)
    /\ HasTerm(probe.tl, ASSET_TERMS)
    /\ HasTerm(probe.tl, INTENT_TERMS)
    /\ HasTerm(probe.tl, {<<"s","y","n","c">>})
    /\ probe.leads = <<>>

\* C4: looks_like_buyer accepts a normalized text exactly when it has an
\* ASSET match, an INTENT match or a "$", and a GENRE, USE_CASE or
\* {sync, licensing, placement, brief} match.
C4_SocialRule ==
    probe.stage \in {"rules", "post", "entry"} =>
        (probe.buyer <=>
            /\ HasTerm(probe.tl, ASSET_TERMS)
            /\ HasTerm(probe.tl, INTENT_TERMS) \/ HasTerm(probe.tl, {<<"$">>})
            /\ \/ HasTerm(probe.tl, GENRE_TERMS)
               \/ HasTerm(probe.tl, USE_CASE_TERMS)
               \/ HasTerm(probe.tl, { <<"s","y","n","c">>
                                    , <<"l","i","c","e","n","s","i","n","g">>
                                    , <<"p","l","a","c","e","m","e","n","t">>
                                    , <<"b","r","i","e","f">> }))

\* A text with asset, intent and genre matches only was accepted.
C4_Witness ==
    /\ probe.stage = "rules"
    /\ probe.buyer
    /\ HasTerm(probe.tl, GENRE_TERMS)
    /\ ~HasTerm(probe.tl, USE_CASE_TERMS)
    /\ ~HasTerm(probe.tl, SYNC_HINT_TERMS)
    /\ ~HasTerm(probe.tl, {<<"$">>})

\* C5: a feed entry with a link and no NEGATIVE match yields a lead exactly
\* when its title has a match in {sync, licensing, placement, brief,
\* supervisor, call for submissions, music wanted} and a GENRE or
\* {hiphop, urban} match; no ASSET match is needed.
C5_FeedRule ==
    (probe.stage = "entry" /\ probe.link # "" /\ ~HasTerm(probe.tl, NEGATIVE_TERMS)) =>
        (probe.leads # <<>> <=>
            /\ HasTerm(probe.tl, { <<"s","y","n","c">>
                                 , <<"l","i","c","e","n","s","i","n","g">>
                                 , <<"p","l","a","c","e","m","e","n","t">>
                                 , <<"b","r","i","e","f">>
                                 , <<"s","u","p","e","r","v","i","s","o","r">>
                                 , <<"c","a","l","l"," ","f","o","r"," ","s","u","b","m","i","s","s","i","o","n","s">>
                                 , <<"m","u","s","i","c"," ","w","a","n","t","e","d">> })
            /\ \/ HasTerm(probe.tl, GENRE_TERMS)
               \/ HasTerm(probe.tl, {<<"h","i","p","h","o","p">>, <<"u","r","b","a","n">>}))

\* An entry titled with "sync" and "trap" and no asset term became a lead.
C5_Witness ==
    /\ probe.stage = "entry"
    /\ probe.leads # <<>>
    /\ HasTerm(probe.tl, {<<"s","y","n","c">>})
    /\ HasTerm(probe.tl, {<<"t","r","a","p">>})
    /\ ~HasTerm(probe.tl, ASSET_TERMS)

\* C6: a seed query or feed whose fetch or handling fails (the failure is
\* printed) adds no record to the candidates, and the run goes on.
C6_FailedSourceYieldsNothing ==
    [][(/\ Len(log') = Len(log) + 1
        /\ log'[Len(log')][1] \in {"ERR", "WARN"})
        => /\ reddit_leads' = reddit_leads
           /\ rss_leads' = rss_leads
           /\ pc' # "error"]_vars

StepRank(step) ==
    CASE step \in {"get_sheet", "clear", "append_row", "existing_urls"} -> 1
      [] step = "search_reddit"                -> 2
      [] step = "search_sync_rss"              -> 3
      [] step = "dedup"                        -> 4
      [] step \in {"write", "append_rows"}     -> 5
      [] step \in {"email", "send_message"}    -> 6
      [] OTHER                                 -> 7

Positions(step) == {i \in 1..Len(trace) : trace[i] = step}

\* C7: the steps of a run come in the order load, fetch, dedup, persist,
\* notify; lead rows are appended at most once, all at once, after every
\* query and feed was fetched and dedup was done; a message is sent only
\* after that append; and a run that ends normally has appended, and has
\* sent, exactly when the accepted list is not empty.
C7_RunOrder ==
    /\ \A i \in 1..(Len(trace) - 1) : StepRank(trace[i]) <= StepRank(trace[i + 1])
    /\ Cardinality(Positions("append_rows")) <= 1
    /\ Len(outbox) <= 1
    /\ \A i \in Positions("append_rows") :
          /\ Cardinality({k \in Positions("search_reddit") : k < i}) = NumQueries
          /\ Cardinality({k \in Positions("search_sync_rss") : k < i}) = NumFeeds
          /\ \E k \in Positions("dedup") : k < i
          /\ new_items # <<>>
          /\ Len(store) > Len(new_items)
          /\ \A k \in 1..Len(new_items) :
                store[Len(store) - Len(new_items) + k][5] = new_items[k].url
    /\ (Positions("send_message") # {}) <=> (outbox # <<>>)
    /\ \A i \in Positions("send_message") : \E k \in Positions("append_rows") : k < i
    /\ pc = "done" =>
          /\ (Positions("append_rows") # {}) <=> (new_items # <<>>)
          /\ (outbox # <<>>) <=> (new_items # <<>>)

\* A run appended two leads, sent its message and ended.
C7_Witness ==
    /\ pc = "done"
    /\ outbox # <<>>
    /\ Len(new_items) = 2

\* C8: after get_sheet the first row is the expected header; when get_sheet
\* cleared a sheet with another first row, the header is the only row until
\* the run appends, and the seen set loaded for the run is empty.
C8_SchemaReset ==
    /\ pc \in {"existing_urls", "search_reddit", "search_sync_rss", "dedup", "write", "email", "done"}
          => (store # <<>> /\ store[1] = Header)
    /\ (Positions("clear") # {} /\ pc \in {"existing_urls", "search_reddit", "search_sync_rss", "dedup", "write"})
          => store = <<Header>>
    /\ (Positions("clear") # {} /\ pc \in {"search_reddit", "search_sync_rss", "dedup"})
          => seen = {}
    /\ (Positions("append_row") # {} /\ Positions("clear") = {}
           /\ pc \in {"existing_urls", "search_reddit", "search_sync_rss", "dedup", "write"})
          => store = <<Header>>

\* A run that cleared a sheet of another schema ended normally, having
\* accepted a url that a discarded row held.
C8_Witness ==
    /\ pc = "done"
    /\ run = 1
    /\ Positions("clear") # {}
    /\ \E k \in 1..Len(new_items) : new_items[k].url = "https://x/1"
    /\ store = <<Header>> \o new_rows

\* C9: the counts of every message sent account for each appended row once,
\* under the source that produced it: posts under "Reddit", feed entries
\* under "Sync RSS".
C9_CountsBySource ==
    \A m \in 1..Len(outbox) :
        LET rows == Tail(outbox[m].rows)
        IN  /\ outbox[m].counts["Reddit"] =
                  Cardinality({i \in 1..Len(rows) : rows[i][6] # "sync; rss"})
            /\ outbox[m].counts["Sync RSS"] =
                  Cardinality({i \in 1..Len(rows) : rows[i][6] = "sync; rss"})
            /\ outbox[m].counts["Reddit"] + outbox[m].counts["Sync RSS"] = Len(rows)

IsPrefix(s, t) == Len(s) <= Len(t) /\ SubSeq(t, 1, Len(s)) = s

\* C10: except in the step that resets a sheet of another schema, every row
\* of the ledger stays in place and unchanged; the only rows ever added are
\* the header on an empty sheet and the accepted leads, in dedup order,
\* after the existing rows.
C10_AppendOnly ==
    [][\/ pc = "get_sheet" /\ store # <<>> /\ store[1] # Header
       \/ /\ IsPrefix(store, store')
          /\ store' # store =>
                \/ store = <<>> /\ store' = <<Header>>
                \/ /\ pc = "write"
                   /\ new_items # <<>>
                   /\ store' = store \o
                        [k \in 1..Len(new_items) |->
                            << new_items[k].timestamp, new_items[k].source
                             , new_items[k].who, new_items[k].title
                             , new_items[k].url, new_items[k].tags >>]]_vars

\* A run without a reset ended with the old rows where they were and its
\* own leads after them.
C10_Witness ==
    /\ pc = "done"
    /\ Positions("clear") = {}
    /\ new_items # <<>>
    /\ Len(store) = 4 + Len(new_items)
    /\ store[2] = <<"2025-12-30 06:00:00 UTC", "note">>
    /\ store[4] = OldRow("https://www.reddit.com/r/beats/1")
    /\ store[5][1] = Now(run)


====
